---------------------------- MODULE Spec2Model ----------------------------
(***************************************************************************)
(* A model of run.py, the Telegram bot that controls Docker containers.    *)
(*                                                                         *)
(* Three parts of the program are modelled:                                *)
(*   - the argument classes (LogArgs, ListArgs, StartStopArgs, EchoArgs)   *)
(*     and their construction from the tokens of a command, SpecBind;      *)
(*   - the module-level registration of commands and handlers through the  *)
(*     decorators reg_command / reg_handler and the set-up in __main__,    *)
(*     SpecReg;                                                            *)
(*   - the serving of inbound commands on the asyncio event loop: handler  *)
(*     callbacks, the error handler and the deferred restart/stop tasks,   *)
(*     Spec.                                                               *)
(*                                                                         *)
(* A string is a sequence of one-character strings, so that int() and      *)
(* str.lower() are computed on the characters.  A Python value carries     *)
(* its type: [t |-> "str", v |-> <<"5">>] is not [t |-> "int", v |-> 5].   *)
(***************************************************************************)
EXTENDS Integers, Sequences, FiniteSets, TLC

VARIABLES
    bindClass,        \* SpecBind: the argument class being constructed
    bindTokens,       \* SpecBind: context.args, the tokens after the command
    bindOut,          \* SpecBind: the outcome of args_class(*context.args)
    script,           \* the decorated definitions of the module, in order
    rpc,              \* position of the import: [i |-> definition, step |-> ...]
    bot_cmd_ctx,      \* ContextVar('bot_cmd')
    handler_args_ctx, \* ContextVar('handler_args')
    SCOPES,           \* SCOPES: scope class -> list of BotCommand
    HANDLERS,         \* HANDLERS: handler class -> list of handlers
    phase,            \* "import", "main", "serving", "failed", "bind"
    app_handlers,     \* the handlers added to the application (line 296)
    menus,            \* what set_my_commands was given, per scope
    received,         \* the number of updates processed so far
    inv,              \* the command invocations that have not ended, and
                      \* those that ended since the last update arrived
    loop              \* 0: the event loop is free; i: blocked in the
                      \* synchronous Docker call of invocation i's task

vars == <<bindClass, bindTokens, bindOut, script, rpc, bot_cmd_ctx,
          handler_args_ctx, SCOPES, HANDLERS, phase, app_handlers, menus,
          received, inv, loop>>

bindVars == <<bindClass, bindTokens, bindOut>>
regVars == <<script, rpc, bot_cmd_ctx, handler_args_ctx, SCOPES, HANDLERS,
             app_handlers, menus>>
serveVars == <<received, inv, loop>>

-----------------------------------------------------------------------------
(* Bounds of the model. *)

\* Longest token sequence given to an argument class.
MaxArgs == 3
\* Number of decorated definitions in a generated module script.
MaxRegs == 2
\* Number of inbound commands of one run.
MaxMsgs == 2

-----------------------------------------------------------------------------
(* Python values and strings. *)

None == [t |-> "none"]
Str(s) == [t |-> "str", v |-> s]
PyInt(n) == [t |-> "int", v |-> n]
PyBool(b) == [t |-> "bool", v |-> b]

Digits == {"0", "1", "2", "3", "4", "5", "6", "7", "8", "9"}

DigitVal(c) ==
    CASE c = "0" -> 0 [] c = "1" -> 1 [] c = "2" -> 2 [] c = "3" -> 3
      [] c = "4" -> 4 [] c = "5" -> 5 [] c = "6" -> 6 [] c = "7" -> 7
      [] c = "8" -> 8 [] c = "9" -> 9

RECURSIVE DecimalVal(_)
DecimalVal(s) ==
    IF s = <<>> THEN 0
    ELSE 10 * DecimalVal(SubSeq(s, 1, Len(s) - 1)) + DigitVal(s[Len(s)])

AllDigits(s) == s # <<>> /\ \A k \in 1..Len(s) : s[k] \in Digits

\* int(x): an int is returned as it is; a str is parsed as an optional sign
\* and decimal digits, anything else raises ValueError.
int(x) ==
    IF x.t = "int" THEN [ok |-> TRUE, val |-> x]
    ELSE IF x.t # "str" \/ x.v = <<>> THEN [ok |-> FALSE]
    ELSE LET signed == x.v[1] \in {"-", "+"}
             digs == IF signed THEN Tail(x.v) ELSE x.v
         IN IF ~AllDigits(digs) THEN [ok |-> FALSE]
            ELSE [ok |-> TRUE,
                  val |-> PyInt(IF x.v[1] = "-" THEN 0 - DecimalVal(digs)
                                ELSE DecimalVal(digs))]

\* str.lower() on the characters the tokens are made of.
LowerChar(c) ==
    CASE c = "T" -> "t" [] c = "F" -> "f" [] c = "X" -> "x" [] OTHER -> c

lower(s) == [k \in 1..Len(s) |-> LowerChar(s[k])]

-----------------------------------------------------------------------------
(* The argument classes: name, fields in declaration order with the        *)
(* annotated type and the default (NoDefault for a required field).        *)

NoDefault == [t |-> "missing"]

LogArgs ==
    [name |-> "LogArgs",
     fields |-> << [name |-> "container_name", type |-> "str", default |-> NoDefault],
                   [name |-> "tail_number", type |-> "int", default |-> PyInt(5)] >>]

ListArgs ==
    [name |-> "ListArgs",
     fields |-> << [name |-> "limit", type |-> "int", default |-> PyInt(15)],
                   [name |-> "all", type |-> "bool", default |-> PyBool(FALSE)] >>]

StartStopArgs ==
    [name |-> "StartStopArgs",
     fields |-> << [name |-> "container_name", type |-> "str", default |-> NoDefault],
                   [name |-> "timeout", type |-> "int", default |-> PyInt(10)] >>]

EchoArgs ==
    [name |-> "EchoArgs",
     fields |-> << [name |-> "text", type |-> "str", default |-> None] >>]

ArgClasses == {LogArgs, ListArgs, StartStopArgs, EchoArgs}

FieldNames(cls) == {cls.fields[k].name : k \in 1..Len(cls.fields)}

\* The generated __init__ of a dataclass called with the tokens as positional
\* arguments: TypeError on too many tokens or on a required field left
\* without one; otherwise the k-th token, a str, or the default.
dataclass_init(cls, tokens) ==
    LET n == Len(cls.fields)
    IN IF Len(tokens) > n THEN [ok |-> FALSE]
       ELSE IF \E k \in (Len(tokens) + 1)..n : cls.fields[k].default = NoDefault
            THEN [ok |-> FALSE]
       ELSE [ok |-> TRUE,
             val |-> [f \in FieldNames(cls) |->
                        LET k == CHOOSE j \in 1..n : cls.fields[j].name = f
                        IN IF k <= Len(tokens) THEN Str(tokens[k])
                           ELSE cls.fields[k].default]]

\* str_to_bool of ListArgs.__post_init__.
str_to_bool(s) ==
    IF s = <<"t">> THEN [ok |-> TRUE, val |-> PyBool(TRUE)]
    ELSE IF s = <<"f">> THEN [ok |-> TRUE, val |-> PyBool(FALSE)]
    ELSE [ok |-> FALSE]

LogArgs_post_init(self) ==
    LET r == int(self.tail_number)
    IN IF r.ok THEN [ok |-> TRUE, val |-> [self EXCEPT !.tail_number = r.val]]
       ELSE [ok |-> FALSE]

ListArgs_post_init(self) ==
    IF self.all.t = "bool" THEN [ok |-> TRUE, val |-> self]
    ELSE LET r == str_to_bool(lower(self.all.v))
         IN IF r.ok THEN [ok |-> TRUE, val |-> [self EXCEPT !.all = r.val]]
            ELSE [ok |-> FALSE]

StartStopArgs_post_init(self) ==
    LET r == int(self.timeout)
    IN IF r.ok THEN [ok |-> TRUE, val |-> [self EXCEPT !.timeout = r.val]]
       ELSE [ok |-> FALSE]

post_init(cls, self) ==
    CASE cls.name = "LogArgs" -> LogArgs_post_init(self)
      [] cls.name = "ListArgs" -> ListArgs_post_init(self)
      [] cls.name = "StartStopArgs" -> StartStopArgs_post_init(self)
      [] OTHER -> [ok |-> TRUE, val |-> self]

\* args_class(*context.args): [ok |-> TRUE, val |-> the instance], or
\* [ok |-> FALSE] when the construction raises.
Construct(cls, tokens) ==
    LET r == dataclass_init(cls, tokens)
    IN IF r.ok THEN post_init(cls, r.val) ELSE [ok |-> FALSE]

-----------------------------------------------------------------------------
(* Registration: reg_command, reg_handler and the handler classes. *)

BotCommandScopeDefault == "BotCommandScopeDefault"
BotCommandScopeChat == "BotCommandScopeChat"
ScopeClasses == {BotCommandScopeDefault, BotCommandScopeChat}

CommandHandler == "CommandHandler"
ArgsHandler == "ArgsHandler"
HandlerClasses == {CommandHandler, ArgsHandler}

Unset == [t |-> "unset"]

\* if args: a class is true, None is false.
Truthy(x) == x # None

\* field_names(datclass), the names in declaration order.
field_names(cls) == [k \in 1..Len(cls.fields) |-> cls.fields[k].name]

\* BotCommand(name, description): the description is kept as the list of
\* parameter names that reg_command appended to it.
BotCommand(name, args) ==
    [command |-> name,
     params |-> IF Truthy(args) THEN field_names(args) ELSE <<>>]

RECURSIVE AppendToScopes(_, _, _)
AppendToScopes(S, scopes, cmd) ==
    IF scopes = <<>> THEN S
    ELSE AppendToScopes([S EXCEPT ![Head(scopes)] = Append(@, cmd)],
                        Tail(scopes), cmd)

\* A faulty variant of reg_command: a context variable is set only while
\* it has no value, so a later command leaves the first command's name and
\* class.
reg_command_ctx_once(st, d) ==
    [st EXCEPT !.bot_cmd = IF @ = Unset THEN Str(d.name) ELSE @,
               !.handler_args = IF @ = Unset THEN d.args ELSE @,
               !.SCOPES = AppendToScopes(@, d.scopes, BotCommand(d.name, d.args))]

\* reg_command(name, description, args, scopes), up to the return of the
\* decorator: the two context variables are set and the command is appended
\* to the list of each scope.
reg_command(st, d) ==
    [st EXCEPT !.bot_cmd = Str(d.name),
               !.handler_args = d.args,
               !.SCOPES = AppendToScopes(@, d.scopes, BotCommand(d.name, d.args))]

\* The filter of a handler built without one: every message passes.
AllMessages == [update_type |-> "MESSAGES"]

\* CommandHandler(command, callback, filters=None).
CommandHandler_init(class_args) ==
    [ok |-> TRUE,
     val |-> [cls |-> CommandHandler, command |-> class_args[1].v,
              callback |-> class_args[2], args_class |-> None,
              filters |-> IF Len(class_args) >= 3 THEN class_args[3]
                          ELSE AllMessages]]

\* ArgsHandler(command, callback, args_class): TypeError without args_class.
ArgsHandler_init(class_args) ==
    IF Len(class_args) < 3 THEN [ok |-> FALSE]
    ELSE [ok |-> TRUE,
          val |-> [cls |-> ArgsHandler, command |-> class_args[1].v,
                   callback |-> class_args[2], args_class |-> class_args[3],
                   filters |-> AllMessages]]

\* HANDLERS[handler_class].append(handler): a defaultdict keeps its keys in
\* the order of their first use.
AppendHandler(H, cls, h) ==
    [order |-> IF \E k \in 1..Len(H.order) : H.order[k] = cls THEN H.order
               ELSE Append(H.order, cls),
     list |-> [H.list EXCEPT ![cls] = Append(@, h)]]

\* The decorator that reg_handler(handler_class) returns, applied to func:
\* the command and the argument class are read from the context variables.
reg_handler(st, handler_class, func) ==
    LET bot_cmd == st.bot_cmd
        handler_args == st.handler_args
        class_args == IF Truthy(handler_args) THEN <<bot_cmd, func, handler_args>>
                      ELSE <<bot_cmd, func>>
        h == IF handler_class = ArgsHandler THEN ArgsHandler_init(class_args)
             ELSE CommandHandler_init(class_args)
    IN IF h.ok
       THEN [ok |-> TRUE,
             val |-> [st EXCEPT !.HANDLERS = AppendHandler(@, handler_class, h.val)]]
       ELSE [ok |-> FALSE]

RegState ==
    [bot_cmd |-> bot_cmd_ctx, handler_args |-> handler_args_ctx,
     SCOPES |-> SCOPES, HANDLERS |-> HANDLERS]

EmptyScopes == [s \in ScopeClasses |-> <<>>]
EmptyHandlers == [order |-> <<>>, list |-> [c \in HandlerClasses |-> <<>>]]

\* A decorated definition of the module: the arguments of reg_command, the
\* argument of reg_handler and the function defined (def is its position in
\* the module).
Decl(name, args, scopes, handler_class, func) ==
    [name |-> name, args |-> args, scopes |-> scopes,
     handler_class |-> handler_class, func |-> func]

ProgramScript ==
    << Decl("info", None, <<BotCommandScopeDefault, BotCommandScopeChat>>,
            CommandHandler, "user_info"),
       Decl("echo", EchoArgs, <<BotCommandScopeChat>>, ArgsHandler, "echo"),
       Decl("list", ListArgs, <<BotCommandScopeChat>>, ArgsHandler, "list_containers"),
       Decl("logs", LogArgs, <<BotCommandScopeChat>>, ArgsHandler, "get_container_logs"),
       Decl("restart", StartStopArgs, <<BotCommandScopeChat>>, ArgsHandler,
            "restart_container"),
       Decl("stop", StartStopArgs, <<BotCommandScopeChat>>, ArgsHandler,
            "stop_container"),
       Decl("start", StartStopArgs, <<BotCommandScopeChat>>, ArgsHandler,
            "start_container") >>

\* The allow-listed user id read from the file given on the command line,
\* and another sender.
OwnerId == "owner"
OtherId == "other"

\* filters.User(user_id=args.user_id), the filter __main__ gives every
\* handler of HANDLERS[ArgsHandler].
UserFilter == [user_id |-> OwnerId]

RECURSIVE Flatten(_, _)
Flatten(order, list) ==
    IF order = <<>> THEN <<>>
    ELSE list[Head(order)] \o Flatten(Tail(order), list)

\* A faulty variant of MainHandlers: the filter is not set.
MainHandlers_public(H) == Flatten(H.order, H.list)

\* The handlers of ArgsHandler are made private, then all handlers are
\* chained in the order of the keys of HANDLERS.
MainHandlers(H) ==
    LET private == [k \in 1..Len(H.list[ArgsHandler]) |->
                       [H.list[ArgsHandler][k] EXCEPT !.filters = UserFilter]]
    IN Flatten(H.order, [H.list EXCEPT ![ArgsHandler] = private])

-----------------------------------------------------------------------------
(* The import of the module and __main__, step by step. *)

RegCommand ==
    /\ phase = "import"
    /\ rpc.i <= Len(script)
    /\ rpc.step = "reg_command"
    /\ LET st == reg_command(RegState, script[rpc.i])
       IN /\ bot_cmd_ctx' = st.bot_cmd
          /\ handler_args_ctx' = st.handler_args
          /\ SCOPES' = st.SCOPES
    /\ rpc' = [rpc EXCEPT !.step = "reg_handler"]
    /\ UNCHANGED <<script, HANDLERS, phase, app_handlers, menus>>
    /\ UNCHANGED <<bindVars, serveVars>>

RegHandler ==
    /\ phase = "import"
    /\ rpc.i <= Len(script)
    /\ rpc.step = "reg_handler"
    /\ LET d == script[rpc.i]
           r == reg_handler(RegState, d.handler_class,
                            [def |-> rpc.i, func |-> d.func])
       IN IF r.ok
          THEN /\ HANDLERS' = r.val.HANDLERS
               /\ rpc' = [i |-> rpc.i + 1, step |-> "reg_command"]
               /\ phase' = phase
          ELSE /\ phase' = "failed"
               /\ UNCHANGED <<HANDLERS, rpc>>
    /\ UNCHANGED <<script, bot_cmd_ctx, handler_args_ctx, SCOPES, app_handlers, menus>>
    /\ UNCHANGED <<bindVars, serveVars>>

\* __main__ up to application.add_handlers(handlers).
MainSetup ==
    /\ phase = "import"
    /\ rpc.i > Len(script)
    /\ phase' = "main"
    /\ app_handlers' = MainHandlers(HANDLERS)
    /\ UNCHANGED <<script, rpc, bot_cmd_ctx, handler_args_ctx, SCOPES, HANDLERS, menus>>
    /\ UNCHANGED <<bindVars, serveVars>>

\* run_polling: post_init sets the command menu of each scope, then updates
\* are accepted.
RunPolling ==
    /\ phase = "main"
    /\ menus' = [s \in ScopeClasses |->
                   [k \in 1..Len(SCOPES[s]) |-> SCOPES[s][k].command]]
    /\ phase' = "serving"
    /\ UNCHANGED <<script, rpc, bot_cmd_ctx, handler_args_ctx, SCOPES, HANDLERS,
                   app_handlers>>
    /\ UNCHANGED <<bindVars, serveVars>>

NextReg == RegCommand \/ RegHandler \/ MainSetup \/ RunPolling

-----------------------------------------------------------------------------
(* Serving: inbound commands, handler callbacks, the error handler and the *)
(* deferred tasks.  An action is what a coroutine does from one await to   *)
(* the next: the event loop runs nothing else meanwhile.                   *)

WebName == <<"w", "e", "b">>
Five == <<"5">>

\* The containers the Docker daemon knows.
Containers == {WebName}

\* The token sequences of the inbound commands: none, an existing and a
\* missing container, a valid and an invalid number, one token too many.
ServeArgs ==
    { <<>>, <<WebName>>, <<Five>>, <<WebName, Five>>, <<WebName, WebName>>,
      <<WebName, Five, Five>> }

Commands == {"info", "echo", "list", "logs", "restart", "stop", "start"}

\* In a private chat the chat id is the id of the user.
Messages ==
    [sender : {OwnerId, OtherId}, cmd : Commands, args : ServeArgs]

Update(m) == [sender |-> m.sender, chat |-> m.sender, cmd |-> m.cmd, args |-> m.args]

NoReply == [kind |-> "none"]
Reply(chat, kind, detail) == [chat |-> chat, kind |-> kind, detail |-> detail]

\* What a coroutine reaches when it runs: an await of send_message (then
\* what follows the await), or an exception.
Send(reply, after) == [raised |-> FALSE, reply |-> reply, after |-> after]
Raise(err) == [raised |-> TRUE, err |-> err]

Call(op, name, arg) == [op |-> op, name |-> name, arg |-> arg]

\* What a callback did up to its first await: whether the function of the
\* command was called, the Docker calls made, whether create_task was
\* called, and what it reached.
Step(called, calls, task, out) ==
    [called |-> called, calls |-> calls, task |-> task, out |-> out]

\* filters.check_update of a handler for the sender of an update.
FilterPasses(h, update) ==
    IF h.filters = AllMessages THEN TRUE
    ELSE IF h.filters = UserFilter THEN update.sender = h.filters.user_id
    ELSE FALSE

\* The first handler of the application that accepts the update, 0 if none.
Matching(update) ==
    {k \in 1..Len(app_handlers) :
        app_handlers[k].command = update.cmd /\ FilterPasses(app_handlers[k], update)}

FirstHandler(update) ==
    IF Matching(update) = {} THEN 0
    ELSE CHOOSE k \in Matching(update) : \A j \in Matching(update) : k <= j

user_info(update) ==
    Step(TRUE, <<>>, FALSE, Send(Reply(update.chat, "info", ""), "return"))

echo(update, args) ==
    Step(TRUE, <<>>, FALSE, Send(Reply(update.chat, "echo", ""), "return"))

list_containers(update, args) ==
    Step(TRUE, <<Call("list", <<>>, [all |-> args.all, limit |-> args.limit])>>, FALSE,
         Send(Reply(update.chat, "list", ""), "return"))

get_container_logs(update, args) ==
    LET name == args.container_name.v
    IN IF name \notin Containers
       THEN Step(TRUE, <<Call("get", name, None)>>, FALSE, Raise("NotFound"))
       ELSE Step(TRUE, <<Call("get", name, None), Call("logs", name, args.tail_number)>>, FALSE,
                 Send(Reply(update.chat, "logs", ""), "return"))

\* A faulty variant of restart_container: the task is created before the
\* acknowledgement is sent.
restart_container_task_first(update, args) ==
    LET name == args.container_name.v
    IN IF name \notin Containers
       THEN Step(TRUE, <<Call("get", name, None)>>, FALSE, Raise("NotFound"))
       ELSE Step(TRUE, <<Call("get", name, None)>>, TRUE,
                 Send(Reply(update.chat, "restarting...", ""), "return"))

\* restart_container up to the await of the acknowledgement; create_task
\* follows the await.
restart_container(update, args) ==
    LET name == args.container_name.v
    IN IF name \notin Containers
       THEN Step(TRUE, <<Call("get", name, None)>>, FALSE, Raise("NotFound"))
       ELSE Step(TRUE, <<Call("get", name, None)>>, FALSE,
                 Send(Reply(update.chat, "restarting...", ""), "create_task"))

stop_container(update, args) ==
    LET name == args.container_name.v
    IN IF name \notin Containers
       THEN Step(TRUE, <<Call("get", name, None)>>, FALSE, Raise("NotFound"))
       ELSE Step(TRUE, <<Call("get", name, None)>>, FALSE,
                 Send(Reply(update.chat, "stopping...", ""), "create_task"))

\* start_container: c.start() is synchronous and succeeds or raises.
start_container(update, args, dockerOk) ==
    LET name == args.container_name.v
    IN IF name \notin Containers
       THEN Step(TRUE, <<Call("get", name, None)>>, FALSE, Raise("NotFound"))
       ELSE IF ~dockerOk
       THEN Step(TRUE, <<Call("get", name, None), Call("start", name, None)>>, FALSE,
                 Raise("APIError"))
       ELSE Step(TRUE, <<Call("get", name, None), Call("start", name, None)>>, FALSE,
                 Send(Reply(update.chat, "started", ""), "return"))

Callback(func, update, args, dockerOk) ==
    CASE func = "echo" -> echo(update, args)
      [] func = "list_containers" -> list_containers(update, args)
      [] func = "get_container_logs" -> get_container_logs(update, args)
      [] func = "restart_container" -> restart_container(update, args)
      [] func = "stop_container" -> stop_container(update, args)
      [] func = "start_container" -> start_container(update, args, dockerOk)
      [] OTHER -> user_info(update)

\* A faulty variant of wrapped_callback: only the TypeError of the
\* generated __init__ is caught, so a failure of __post_init__ escapes the
\* callback.
wrapped_callback_type_error_only(h, update, dockerOk) ==
    LET r == Construct(h.args_class, update.args)
    IN IF ~dataclass_init(h.args_class, update.args).ok
       THEN Step(FALSE, <<>>, FALSE,
                 Send(Reply(update.chat, "Wrong arguments of", h.args_class.name),
                      "return"))
       ELSE IF ~r.ok THEN Step(FALSE, <<>>, FALSE, Raise("ValueError"))
       ELSE Callback(h.callback.func, update, r.val, dockerOk)

\* ArgsHandler's wrapped_callback: the argument class is built from
\* context.args; if that raises, the error text is sent and the callback is
\* not called.
wrapped_callback(h, update, dockerOk) ==
    LET r == Construct(h.args_class, update.args)
    IN IF ~r.ok
       THEN Step(FALSE, <<>>, FALSE,
                 Send(Reply(update.chat, "Wrong arguments of", h.args_class.name),
                      "return"))
       ELSE Callback(h.callback.func, update, r.val, dockerOk)

\* The callback of a handler, run to its first await.
HandlerCallback(h, update, dockerOk) ==
    IF h.cls = ArgsHandler THEN wrapped_callback(h, update, dockerOk)
    ELSE user_info(update)

\* A faulty variant of error_handler: the reply goes to the chat of the
\* allow-listed user.
error_handler_to_owner(update, err) ==
    IF update = None THEN Raise("AttributeError")
    ELSE Send(Reply(OwnerId, "error", err), "errdone")

\* error_handler(update, context): update.message raises AttributeError when
\* update is None; otherwise str(context.error) is sent to the chat of the
\* update.
error_handler(update, err) ==
    IF update = None THEN Raise("AttributeError")
    ELSE Send(Reply(update.chat, "error", err), "errdone")

\* The update given to the error handlers for a failed task: create_task is
\* called with the coroutine alone, so there is none.
TaskUpdate(update) == None

\* The task coroutines restart() and stop() after the synchronous Docker
\* call: the completion reply is sent, or the call raised.
restart(update, callOk) ==
    IF callOk THEN Send(Reply(update.chat, "restarted.", ""), "return")
    ELSE Raise("APIError")

stop(update, callOk) ==
    IF callOk THEN Send(Reply(update.chat, "stopped.", ""), "return")
    ELSE Raise("APIError")

\* A faulty variant of AwaitSend: a failed send is swallowed and the coroutine
\* goes on.
AwaitSend_swallow(after, ok) ==
    [raised |-> FALSE, task |-> after = "create_task"]

\* await context.bot.send_message(...) in a callback: the coroutine goes on
\* with what follows the await (create_task in restart and stop), or the
\* exception of the send is raised in it.
AwaitSend(after, ok) ==
    IF ok THEN [raised |-> FALSE, task |-> after = "create_task"]
    ELSE Raise("SendError")

\* A coroutine of an invocation: pc is "none", "scheduled", "incall",
\* "await_send", "done" (returned) or "failed" (ended by an exception);
\* err is the exception that ended it.
NoCo == [pc |-> "none", pending |-> NoReply, after |-> "", err |-> ""]
Scheduled == [NoCo EXCEPT !.pc = "scheduled"]

\* The state of a coroutine that reached `out`; an exception goes to the
\* error handlers of the application with the update `upd`, and an
\* exception of the error handler itself is only logged.
Reach(co, upd, out) ==
    IF ~out.raised
    THEN [co EXCEPT !.pc = "await_send", !.pending = out.reply, !.after = out.after]
    ELSE LET eh == error_handler(upd, out.err)
         IN IF eh.raised
            THEN [co EXCEPT !.pc = "failed", !.pending = NoReply, !.err = out.err]
            ELSE [co EXCEPT !.pc = "await_send", !.pending = eh.reply,
                            !.after = eh.after, !.err = out.err]

HandlerBusy == \E i \in 1..Len(inv) : inv[i].h.pc = "await_send"

\* An invocation has ended when its callback and its task, if any, have.
Ended(rec) ==
    /\ rec.h.pc \in {"none", "done", "failed"}
    /\ rec.t.pc \in {"none", "done", "failed"}

InProgress(s) == SelectSeq(s, LAMBDA rec : ~Ended(rec))

\* An update arrives and is processed: updates are processed one after the
\* other, and the callback of the first handler that accepts the update runs
\* to its first await.
Dispatch(m, dockerOk) ==
    /\ phase = "serving"
    /\ loop = 0
    /\ received < MaxMsgs
    /\ received' = received + 1
    /\ ~HandlerBusy
    /\ LET update == Update(m)
           k == FirstHandler(update)
       IN IF k = 0
          THEN inv' = Append(InProgress(inv), [update |-> update, handler |-> 0, called |-> FALSE,
                                   calls |-> <<>>, sends |-> <<>>, h |-> NoCo, t |-> NoCo])
          ELSE LET st == HandlerCallback(app_handlers[k], update, dockerOk)
               IN inv' = Append(InProgress(inv),
                           [update |-> update, handler |-> k, called |-> st.called,
                            calls |-> st.calls, sends |-> <<>>,
                            h |-> Reach(NoCo, update, st.out),
                            t |-> IF st.task THEN Scheduled ELSE NoCo])
    /\ UNCHANGED <<loop, phase>>
    /\ UNCHANGED <<bindVars, regVars>>

DispatchAny == \E m \in Messages : \E dockerOk \in BOOLEAN : Dispatch(m, dockerOk)

\* The send a callback (or the error handler run for it) awaits completes.
SendComplete(i, ok) ==
    /\ phase = "serving"
    /\ loop = 0
    /\ inv[i].h.pc = "await_send"
    /\ LET rec == inv[i]
           co == rec.h
           res == AwaitSend(co.after, ok)
           sends == Append(rec.sends, [reply |-> co.pending, ok |-> ok])
       IN IF co.after = "errdone"
          THEN inv' = [inv EXCEPT ![i].sends = sends,
                                  ![i].h = [co EXCEPT !.pc = "failed", !.pending = NoReply]]
          ELSE IF res.raised
          THEN inv' = [inv EXCEPT ![i].sends = sends,
                                  ![i].h = Reach(co, rec.update, res)]
          ELSE inv' = [inv EXCEPT ![i].sends = sends,
                                  ![i].h = [co EXCEPT !.pc = "done", !.pending = NoReply],
                                  ![i].t = IF res.task THEN Scheduled ELSE @]
    /\ UNCHANGED <<loop, phase, received>>
    /\ UNCHANGED <<bindVars, regVars>>

SendCompleteAny == \E i \in 1..Len(inv) : \E ok \in BOOLEAN : SendComplete(i, ok)

TaskOp(rec) ==
    IF app_handlers[rec.handler].callback.func = "restart_container" THEN "restart"
    ELSE "stop"

\* The event loop starts a created task: restart() / stop() enter the
\* synchronous c.restart(timeout=...) / c.stop(timeout=...), which keeps the
\* thread of the event loop until it returns.
TaskStart(i) ==
    /\ phase = "serving"
    /\ loop = 0
    /\ inv[i].t.pc = "scheduled"
    /\ LET rec == inv[i]
           args == Construct(app_handlers[rec.handler].args_class, rec.update.args).val
       IN inv' = [inv EXCEPT ![i].t.pc = "incall",
                             ![i].calls = Append(@, Call(TaskOp(rec),
                                                         args.container_name.v,
                                                         args.timeout))]
    /\ loop' = i
    /\ UNCHANGED <<phase, received>>
    /\ UNCHANGED <<bindVars, regVars>>

TaskStartAny == \E i \in 1..Len(inv) : TaskStart(i)

\* The Docker call of a task returns or raises.  It may also never do so.
TaskCallReturn(i, callOk) ==
    /\ phase = "serving"
    /\ loop = i
    /\ inv[i].t.pc = "incall"
    /\ LET rec == inv[i]
           out == IF TaskOp(rec) = "restart" THEN restart(rec.update, callOk)
                  ELSE stop(rec.update, callOk)
       IN inv' = [inv EXCEPT ![i].t = Reach(rec.t, TaskUpdate(rec.update), out)]
    /\ loop' = 0
    /\ UNCHANGED <<phase, received>>
    /\ UNCHANGED <<bindVars, regVars>>

TaskCallReturnAny ==
    \E i \in 1..Len(inv) : \E callOk \in BOOLEAN : TaskCallReturn(i, callOk)

\* The send a task awaits completes.
TaskSendComplete(i, ok) ==
    /\ phase = "serving"
    /\ loop = 0
    /\ inv[i].t.pc = "await_send"
    /\ LET rec == inv[i]
           co == rec.t
           sends == Append(rec.sends, [reply |-> co.pending, ok |-> ok])
       IN IF co.after = "errdone"
          THEN inv' = [inv EXCEPT ![i].sends = sends,
                                  ![i].t = [co EXCEPT !.pc = "failed", !.pending = NoReply]]
          ELSE IF ~ok
          THEN inv' = [inv EXCEPT ![i].sends = sends,
                                  ![i].t = Reach(co, TaskUpdate(rec.update),
                                                 Raise("SendError"))]
          ELSE inv' = [inv EXCEPT ![i].sends = sends,
                                  ![i].t = [co EXCEPT !.pc = "done", !.pending = NoReply]]
    /\ UNCHANGED <<loop, phase, received>>
    /\ UNCHANGED <<bindVars, regVars>>

TaskSendCompleteAny ==
    \E i \in 1..Len(inv) : \E ok \in BOOLEAN : TaskSendComplete(i, ok)

NextServe ==
    \/ DispatchAny
    \/ SendCompleteAny
    \/ TaskStartAny
    \/ TaskCallReturnAny
    \/ TaskSendCompleteAny

-----------------------------------------------------------------------------
(* The construction of an argument class on its own. *)

BindTokens ==
    { <<"7">>, <<"1", "2">>, <<"-", "3">>, <<"-">>, <<"7", "x">>,
      <<"t">>, <<"f">>, <<"T">>, <<"F">>, <<"x">>, WebName }

RECURSIVE SeqsUpTo(_, _)
SeqsUpTo(S, n) ==
    IF n = 0 THEN {<<>>}
    ELSE LET shorter == SeqsUpTo(S, n - 1)
         IN shorter \cup {Append(q, x) : q \in shorter, x \in S}

NotBound == [ok |-> FALSE, pending |-> TRUE]

DoBind ==
    /\ phase = "bind"
    /\ bindOut = NotBound
    /\ bindOut' = Construct(bindClass, bindTokens)
    /\ UNCHANGED <<bindClass, bindTokens, phase>>
    /\ UNCHANGED <<regVars, serveVars>>

NextBind == DoBind

-----------------------------------------------------------------------------
(* The specifications. *)

IdleBind ==
    /\ bindClass = EchoArgs
    /\ bindTokens = <<>>
    /\ bindOut = NotBound

IdleServe ==
    /\ received = 0
    /\ inv = <<>>
    /\ loop = 0

StartOfImport ==
    /\ rpc = [i |-> 1, step |-> "reg_command"]
    /\ bot_cmd_ctx = Unset
    /\ handler_args_ctx = Unset
    /\ SCOPES = EmptyScopes
    /\ HANDLERS = EmptyHandlers
    /\ app_handlers = <<>>
    /\ menus = EmptyScopes

\* The program: the module is imported, __main__ runs, commands are served.
Init ==
    /\ script = ProgramScript
    /\ phase = "import"
    /\ StartOfImport
    /\ IdleBind
    /\ IdleServe

Next == NextReg \/ NextServe

Spec == Init /\ [][Next]_vars

\* The import and __main__ for any module of up to MaxRegs decorated
\* definitions.
GenNames == {"info", "echo"}
GenKinds ==
    { [handler_class |-> CommandHandler, args |-> None],
      [handler_class |-> ArgsHandler, args |-> EchoArgs],
      [handler_class |-> ArgsHandler, args |-> ListArgs],
      [handler_class |-> ArgsHandler, args |-> None] }
GenScopes ==
    { <<BotCommandScopeChat>>, <<BotCommandScopeDefault>>,
      <<BotCommandScopeDefault, BotCommandScopeChat>> }
GenDecls ==
    { Decl(n, k.args, sc, k.handler_class, "f") :
        n \in GenNames, k \in GenKinds, sc \in GenScopes }

InitReg ==
    /\ script \in SeqsUpTo(GenDecls, MaxRegs)
    /\ phase = "import"
    /\ StartOfImport
    /\ IdleBind
    /\ IdleServe

SpecReg == InitReg /\ [][NextReg]_vars

\* The construction of every argument class from every token sequence of up
\* to MaxArgs tokens.
InitBind ==
    /\ bindClass \in ArgClasses
    /\ bindTokens \in SeqsUpTo(BindTokens, MaxArgs)
    /\ bindOut = NotBound
    /\ phase = "bind"
    /\ script = <<>>
    /\ StartOfImport
    /\ IdleServe

SpecBind == InitBind /\ [][NextBind]_vars

-----------------------------------------------------------------------------
(* Properties. *)

Invocations == {inv[i] : i \in 1..Len(inv)}

\* The commands whose handlers __main__ made private.
OwnerScoped == {HANDLERS.list[ArgsHandler][k].command :
                    k \in 1..Len(HANDLERS.list[ArgsHandler])}

\* The replies given to send_message for an invocation: the sends that
\* completed, then those awaited.
Issued(rec) ==
    [k \in 1..Len(rec.sends) |-> rec.sends[k].reply]
      \o (IF rec.h.pc = "await_send" THEN <<rec.h.pending>> ELSE <<>>)
      \o (IF rec.t.pc = "await_send" THEN <<rec.t.pending>> ELSE <<>>)

Positions(q, kind) == {k \in 1..Len(q) : q[k].kind = kind}

MutatingCalls(rec) ==
    {k \in 1..Len(rec.calls) : rec.calls[k].op \in {"restart", "stop"}}

\* C1: an update from a sender other than the allow-listed user for a
\* command registered with ArgsHandler (echo, list, logs, restart, stop,
\* start) is taken by no handler: nothing is bound, no callback runs, no
\* reply is sent or awaited, no Docker call is made and no task is created,
\* whatever the tokens are.
C1_StrangerIsIgnored ==
    \A rec \in Invocations :
        (rec.update.sender # OwnerId /\ rec.update.cmd \in OwnerScoped)
            => /\ rec.handler = 0
               /\ ~rec.called
               /\ rec.sends = <<>>
               /\ rec.calls = <<>>
               /\ rec.h = NoCo
               /\ rec.t = NoCo

\* A stranger sent /restart without the container name, which would be a
\* wrong-arguments reply had the update reached the handler.
C1_Witness ==
    \E rec \in Invocations :
        /\ rec.update.sender = OtherId
        /\ rec.update.cmd = "restart"
        /\ rec.update.args = <<>>
        /\ rec.handler = 0

BindFails(rec) ==
    /\ rec.handler # 0
    /\ app_handlers[rec.handler].cls = ArgsHandler
    /\ ~Construct(app_handlers[rec.handler].args_class, rec.update.args).ok

WrongArgs(rec) ==
    Reply(rec.update.chat, "Wrong arguments of",
          app_handlers[rec.handler].args_class.name)

\* C2: when the construction of the argument class of a command fails,
\* exactly one reply "Wrong arguments of <class>" is given to send_message,
\* for the chat of the update and naming the class of the command; the
\* function of the command is not called, no Docker call is made and no task
\* is created.
C2_BindErrorOneReply ==
    \A rec \in Invocations :
        BindFails(rec)
            => /\ Cardinality(Positions(Issued(rec), "Wrong arguments of")) = 1
               /\ Issued(rec)[1] = WrongArgs(rec)
               /\ ~rec.called
               /\ rec.calls = <<>>
               /\ rec.t = NoCo

\* /restart without the container name was answered and the callback ended.
C2_Witness ==
    \E rec \in Invocations :
        /\ BindFails(rec)
        /\ rec.update.cmd = "restart"
        /\ rec.update.args = <<>>
        /\ rec.h.pc = "done"
        /\ rec.sends = <<[reply |-> WrongArgs(rec), ok |-> TRUE]>>

Ack(rec) ==
    Reply(rec.update.chat,
          IF rec.update.cmd = "restart" THEN "restarting..." ELSE "stopping...", "")

Completion(rec) ==
    Reply(rec.update.chat,
          IF rec.update.cmd = "restart" THEN "restarted." ELSE "stopped.", "")

AckDeliveredBefore(rec, n) ==
    \E j \in 1..(n - 1) : rec.sends[j] = [reply |-> Ack(rec), ok |-> TRUE]

\* C3: in a restart or stop invocation, when the completion reply
\* ("restarted." / "stopped.") is given to send_message, the send of the
\* acknowledgement ("restarting..." / "stopping...") of the same invocation
\* has already completed, whatever other callbacks and tasks did meanwhile.
C3_AckBeforeCompletion ==
    \A rec \in Invocations :
        rec.update.cmd \in {"restart", "stop"}
            => \A k \in 1..Len(Issued(rec)) :
                   Issued(rec)[k] = Completion(rec)
                       => AckDeliveredBefore(rec, IF k <= Len(rec.sends) THEN k
                                                  ELSE Len(rec.sends) + 1)

\* Two invocations are in progress, a restart whose "restarted." was sent
\* and a stop whose task is still to run.
C3_Witness ==
    \E a \in Invocations : \E b \in Invocations :
        /\ a.update.cmd = "restart"
        /\ a.sends = <<[reply |-> Ack(a), ok |-> TRUE],
                       [reply |-> Completion(a), ok |-> TRUE]>>
        /\ b.update.cmd = "stop"
        /\ b.t.pc = "scheduled"

\* C4: when the Docker call of a task has failed, a reply with the failure
\* has been sent, or is being sent, to the chat of the command.
C4_TaskFailureIsReported ==
    \A rec \in Invocations :
        (rec.t.pc = "failed" /\ rec.t.err = "APIError")
            => \E k \in 1..Len(Issued(rec)) :
                   Issued(rec)[k] = Reply(rec.update.chat, "error", "APIError")

ErrorReply(rec) == Reply(rec.update.chat, "error", rec.h.err)

\* C5: when an exception leaves the callback of a command, the error
\* handler gives exactly one reply to send_message: it goes to the chat of
\* the update and carries the text of the exception; nothing is sent after
\* it, no other reply of the invocation was delivered, and no task is
\* created.
C5_HandlerErrorOneReply ==
    \A rec \in Invocations :
        rec.h.err # ""
            => /\ Positions(Issued(rec), "error") = {Len(Issued(rec))}
               /\ Issued(rec)[Len(Issued(rec))] = ErrorReply(rec)
               /\ \A k \in 1..Len(rec.sends) :
                      rec.sends[k].ok => rec.sends[k].reply = ErrorReply(rec)
               /\ rec.t = NoCo
               /\ MutatingCalls(rec) = {}

\* The owner asked for the logs of a container that does not exist: the
\* reply "NotFound" was delivered and the invocation ended.
C5_Witness ==
    \E rec \in Invocations :
        /\ rec.update.cmd = "logs"
        /\ rec.h.pc = "failed"
        /\ rec.h.err = "NotFound"
        /\ rec.sends = <<[reply |-> ErrorReply(rec), ok |-> TRUE]>>

\* C8: while a task is in its Docker call, the next update can be
\* processed.
C8_DispatcherNotBlocked ==
    ((\E rec \in Invocations : rec.t.pc = "incall")
        /\ ~HandlerBusy /\ received < MaxMsgs)
            => ENABLED DispatchAny

\* C9: in a restart or stop invocation the task is created, and
\* c.restart / c.stop called, only after the send of the acknowledgement
\* completed without an exception; an invocation whose callback was ended by
\* an exception (the container not found, the send failed) has no task and
\* made no such call.
C9_MutationOnlyAfterAck ==
    \A rec \in Invocations :
        /\ (rec.t # NoCo \/ MutatingCalls(rec) # {})
               => /\ rec.sends # <<>>
                  /\ rec.sends[1] = [reply |-> Ack(rec), ok |-> TRUE]
        /\ rec.h.err # "" => (rec.t = NoCo /\ MutatingCalls(rec) = {})

\* A stop whose task has called c.stop, and a restart whose
\* acknowledgement could not be sent and that has ended.
C9_Witness ==
    \E a \in Invocations : \E b \in Invocations :
        /\ a.update.cmd = "stop"
        /\ MutatingCalls(a) # {}
        /\ b.update.cmd = "restart"
        /\ b.sends # <<>>
        /\ b.sends[1] = [reply |-> Ack(b), ok |-> FALSE]
        /\ b.h.pc = "failed"

DuplicateNames ==
    \E i \in 1..Len(script) : \E j \in 1..Len(script) :
        i # j /\ script[i].name = script[j].name

\* C6: a module that registers two commands with the same name never gets
\* to accept updates: the start-up fails.
C6_DuplicateNameFailsStartup ==
    phase = "serving" => ~DuplicateNames

\* The token sequence is valid for the class: no token too many, every
\* required field has one, and every token converts to the annotated type
\* of its field.
Converts(type, token) ==
    CASE type = "int" -> int(Str(token)).ok
      [] type = "bool" -> str_to_bool(lower(token)).ok
      [] OTHER -> TRUE

Coerced(type, token) ==
    CASE type = "int" -> int(Str(token)).val
      [] type = "bool" -> str_to_bool(lower(token)).val
      [] OTHER -> Str(token)

ValidTokens(cls, tokens) ==
    /\ Len(tokens) <= Len(cls.fields)
    /\ \A k \in 1..Len(cls.fields) :
          IF k <= Len(tokens) THEN Converts(cls.fields[k].type, tokens[k])
          ELSE cls.fields[k].default # NoDefault

\* C7: for every argument class and every valid token sequence the
\* construction succeeds, and each field is its default when its token is
\* omitted and otherwise the token converted to the annotated type of the
\* field: an int for tail_number, timeout and limit, a bool for all, the
\* token for a str field.
C7_FieldsHaveDeclaredTypes ==
    (phase = "bind" /\ bindOut # NotBound /\ ValidTokens(bindClass, bindTokens))
        => /\ bindOut.ok
           /\ \A k \in 1..Len(bindClass.fields) :
                  bindOut.val[bindClass.fields[k].name] =
                      IF k <= Len(bindTokens)
                      THEN Coerced(bindClass.fields[k].type, bindTokens[k])
                      ELSE bindClass.fields[k].default

AllHandlers == Flatten(HANDLERS.order, HANDLERS.list)

RECURSIVE MenuOf(_, _)
MenuOf(decls, scope) ==
    IF decls = <<>> THEN <<>>
    ELSE LET d == Head(decls)
         IN (IF \E k \in 1..Len(d.scopes) : d.scopes[k] = scope
             THEN <<BotCommand(d.name, d.args)>> ELSE <<>>)
                \o MenuOf(Tail(decls), scope)

\* C10: once every decorated definition of the module has been processed,
\* each of them has exactly one handler in HANDLERS, in the list of its
\* handler class, with the command name and the argument class given to the
\* reg_command that decorates the same function, and the list of each scope
\* in SCOPES holds the commands registered for it in the order of the
\* module.
C10_HandlersMatchRegistrations ==
    phase \in {"main", "serving"}
        => /\ Len(AllHandlers) = Len(script)
           /\ \A i \in 1..Len(script) :
                  \E k \in 1..Len(HANDLERS.list[script[i].handler_class]) :
                      LET h == HANDLERS.list[script[i].handler_class][k]
                      IN /\ h.callback.def = i
                         /\ h.command = script[i].name
                         /\ h.args_class = script[i].args
           /\ \A sc \in ScopeClasses : SCOPES[sc] = MenuOf(script, sc)

\* Two commands with different names, argument classes and scopes were
\* registered, the second one public.
C10_Witness ==
    /\ phase = "main"
    /\ Len(script) = 2
    /\ script[1].name # script[2].name
    /\ script[1].args = EchoArgs
    /\ script[2].args = None
    /\ Len(SCOPES[BotCommandScopeDefault]) = 1
    /\ Len(SCOPES[BotCommandScopeChat]) = 2

=============================================================================
